---- MODULE Spec2Model ----
(***************************************************************************)
(* Job orchestration of the anomaly-detection backend: the upload route    *)
(* (multer ingress + uploadFile), the ML service client                    *)
(* (sendFileToMlService), the Job collection and deleteJob.                *)
(*                                                                         *)
(* One "pass" is one POST /api/upload request.  uploadFile is an async     *)
(* function: it is cut at its await points (Job.create, axios.post inside  *)
(* sendFileToMlService, job.save), and every action below is the code that *)
(* runs from one await's resolution up to the next await or the end of the *)
(* handler.  What an await resolves to (the write is applied or rejected,  *)
(* the remote answers, fails or times out) is an input of the action.      *)
(***************************************************************************)
EXTENDS Integers, Sequences, FiniteSets, TLC

\* ------------------------------------------------------------------ bounds
MaxPasses == 2

Passes == 1 .. MaxPasses

\* ------------------------------------------------------- JS optional values
\* undefined / absent field is None, a present value v is Some(v)
None == << >>
Some(v) == << v >>
IsSet(x) == x # None

\* ------------------------------------------------------------------ inputs
Users == {"u1", "u2"}

\* multer limits.fileSize
FileSizeLimit == 10 * 1024 * 1024

NameCsv == << "a", ".", "c", "s", "v" >>
NameCsvX == << "a", ".", "c", "s", "v", "x" >>
NameNoDot == << "a", "c", "s", "v" >>

\* the multipart "file" part of a request, when there is one
Uploads ==
  [originalname : {NameCsv, NameCsvX, NameNoDot},
   size : {FileSizeLimit, FileSizeLimit + 1}]

\* the remote's 2xx bodies (its contract: a summary plus the result payload)
Payloads ==
  { [summary |-> [anomalies |-> 3, total_rows |-> 100], results |-> "rows"] }

\* error.response.data of a non-2xx answer: null / undefined (a body that
\* parses to null), or a value whose message property is absent (an empty or
\* message-less body), empty or a text
ErrorBodies ==
  { None,
    Some([message |-> None]),
    Some([message |-> Some("")]),
    Some([message |-> Some("model unavailable")]) }

NoPayload == [summary |-> [anomalies |-> 0, total_rows |-> 0], results |-> ""]

\* what `await axios.post(...)` settles to: a response, or an error object
\* with its response / request / message properties
AxiosOutcomes ==
  { [resolved |-> TRUE, data |-> d, response |-> None, request |-> FALSE,
     message |-> ""] : d \in Payloads }
  \cup
  { [resolved |-> FALSE, data |-> NoPayload, response |-> Some([data |-> b]),
     request |-> TRUE, message |-> "Request failed with status code 500"] :
     b \in ErrorBodies }
  \cup
  { [resolved |-> FALSE, data |-> NoPayload, response |-> None,
     request |-> TRUE, message |-> "timeout of 120000ms exceeded"] }
  \cup
  { [resolved |-> FALSE, data |-> NoPayload, response |-> None,
     request |-> FALSE, message |-> "Invalid URL"] }

\* what an awaited database write settles to
WriteOutcomes == {"ok", "error"}

DbErrorMessage == "database write failed"
NotFoundMessage == "No document found for query"
TypeErrorMessage == "Cannot read properties of undefined (reading 'message')"
CastErrorMessage == "Cast to ObjectId failed"

\* a :id route parameter that is not an ObjectId (e.g. /api/jobs/abc), and the
\* ids a request to /api/jobs/:id may name
MalformedId == 0
RouteIds == Passes \cup {MalformedId}

\* Date.now()
Now == "now"

\* handleUpload invocations followed on one Upload page
MaxClicks == 3

\* handleSelectResult invocations followed on one Results page
MaxSelections == 3

\* the history items that come without their results (from GET /api/jobs),
\* and the one that carries them (the fresh upload handed over by navigate)
SummaryItems == {"job1", "job2"}
FullItems == {"job0"}

\* logins, signups and page loads followed in one browser
MaxAuthOps == 4

\* what /api/auth/login and /api/auth/signup answer: { _id, name, email, token }
\* split into the token and the rest
Accounts ==
  { [token |-> "jwt-u1", user |-> "u1"], [token |-> "jwt-u2", user |-> "u2"] }

\* the status of a rejected API response
ErrorStatuses == {401, 500}

\* the files FileUploader hands to onFileSelect
PageFiles == {"a.csv", "b.csv"}

\* the percentages onUploadProgress reports
Percents == {50, 100}

\* the err fs.unlink hands its callback: null (""), or the code of a failure
\* (the file is already gone, the file may not be removed)
UnlinkErrors == {"", "ENOENT", "EACCES"}

VARIABLES
  pc,          \* per pass: where the request is
  req,         \* per pass: req.user.id, the part sent, req.file after multer
  db,          \* the Job collection: per id, the persisted document or None
  job,         \* per pass: uploadFile's in-memory `job` document
  mlOutcome,   \* per pass: what axios.post settled to (None: not settled)
  res,         \* per pass: the response / the error handed to next()
  creates,     \* per pass: Job documents inserted
  writes,      \* per pass: job.save() calls that were applied
  remoteCalls, \* per pass: axios.post calls issued
  unlinkCalls, \* per pass: fs.unlink invocations on req.file.path
  stored,      \* per pass: multer wrote the upload under uploads/
  caught,      \* per pass: message of the error bound in uploadFile's catch
  events,      \* per pass: what the pass did so far, in program order
  deletedBy,   \* per id: the caller whose deleteJob removed the Job
  unlinkResult, \* per pass: what fs.unlink handed its callback (None: not yet)
  logged,      \* per pass: what the unlink callback wrote with console.error
  pageFile,    \* Upload page: useState `file` (None: null)
  uploading,   \* Upload page: useState `uploading`
  progress,    \* Upload page: useState `progress`
  disabled,    \* Upload page: the button's disabled attribute as last rendered
  inFlight,    \* Upload page: mlService.uploadFile requests not yet settled
  clicks,      \* Upload page: handleUpload invocations
  toasts,      \* Upload page: the toasts shown, in order
  route,       \* Upload page: where the router is ("/upload" or "/results")
  lsToken,     \* localStorage 'token' (None: no entry)
  lsUser,      \* localStorage 'user' (None: no entry)
  ctxToken,    \* AuthProvider: useState `token`
  ctxUser,     \* AuthProvider: useState `user`
  loading,     \* AuthProvider: useState `loading`
  pendingLogin,  \* authService.login requests not yet settled
  pendingSignup, \* authService.signup requests not yet settled
  authOps,     \* logins, signups and page loads so far
  selectedResult, \* Results page: useState `selectedResult` (the job's _id)
  loadingDetails, \* Results page: useState `loadingDetails`
  fetches,     \* Results page: per job, getJobDetails calls not yet settled
  lastSelected, \* Results page: the item of the latest handleSelectResult
  selections,  \* Results page: handleSelectResult invocations
  detailFailures \* Results page: getJobDetails calls that rejected

\* the state of the Upload page component
uploadPage ==
  << pageFile, uploading, progress, disabled, inFlight, clicks, toasts, route >>

\* the client's authentication state: localStorage and the AuthProvider
auth ==
  << lsToken, lsUser, ctxToken, ctxUser, loading, pendingLogin, pendingSignup,
     authOps >>

\* the state of the Results page component
resultsPage ==
  << selectedResult, loadingDetails, fetches, lastSelected, selections,
     detailFailures >>

\* the state of the browser
browser == << uploadPage, auth, resultsPage >>

\* the state of the server
server ==
  << pc, req, db, job, mlOutcome, res, creates, writes, remoteCalls,
     unlinkCalls, stored, caught, events, deletedBy >>

\* the server together with its unlink callbacks
backend == << server, unlinkResult, logged >>

\* what the Upload page's handlers leave alone
offUploadPage == << backend, auth, resultsPage >>

\* what the AuthProvider and the response interceptor leave alone
offAuth == << backend, uploadPage, resultsPage >>

\* what the Results page's handlers leave alone
offResultsPage == << backend, uploadPage, auth >>

\* what no step of uploadFile, getJobs, getJob or deleteJob assigns
aside == << unlinkResult, logged, browser >>

vars == << server, aside >>

\* ------------------------------------------------------------ pure helpers
\* (mutant) a filter that lets every name through
fileFilterAcceptsAll(originalname) == TRUE

\* /\.(csv)$/ : the name ends with the four characters ".csv"
fileFilter(originalname) ==
  /\ Len(originalname) >= 4
  /\ SubSeq(originalname, Len(originalname) - 3, Len(originalname))
       = << ".", "c", "s", "v" >>

\* a || b on strings that may be undefined
Falsy(x) == x = None \/ x = Some("")

\* sendFileToMlService: the returned data, or the Error thrown (its class
\* and message).  Reading .message of a null / undefined error.response.data
\* throws a TypeError from inside the catch block.
sendFileToMlService(o) ==
  IF o.resolved
    THEN [ok |-> TRUE, data |-> o.data, name |-> "", message |-> ""]
    ELSE IF IsSet(o.response)
      THEN LET body == o.response[1].data IN
           IF body = None
             THEN [ok |-> FALSE, data |-> NoPayload, name |-> "TypeError",
                   message |-> TypeErrorMessage]
             ELSE [ok |-> FALSE, data |-> NoPayload, name |-> "Error",
                   message |-> IF Falsy(body[1].message)
                                 THEN "ML Service Failed"
                                 ELSE body[1].message[1]]
      ELSE IF o.request
        THEN [ok |-> FALSE, data |-> NoPayload, name |-> "Error",
              message |-> "ML Service did not respond"]
        ELSE [ok |-> FALSE, data |-> NoPayload, name |-> "Error",
              message |-> o.message]

\* the document Job.create is given (schema defaults applied)
NewJob(user, file) ==
  [user |-> user, filename |-> file.originalname, status |-> "pending",
   summary |-> None, results |-> None, error |-> None, completedAt |-> None]

\* (mutant) a success branch that also renames the Job after the payload
MarkDoneRenamed(j, mlResponse) ==
  [j EXCEPT !.status = "done",
            !.filename = << mlResponse.results >>,
            !.summary = Some(mlResponse.summary),
            !.results = Some(mlResponse),
            !.completedAt = Some(Now)]

\* the assignments of the success branch before its save
MarkDone(j, mlResponse) ==
  [j EXCEPT !.status = "done",
            !.summary = Some(mlResponse.summary),
            !.results = Some(mlResponse),
            !.completedAt = Some(Now)]

\* (mutant) a catch branch that records no message
MarkFailedWithoutMessage(j, message) ==
  [j EXCEPT !.status = "failed"]

\* the assignments of the catch branch before its save
MarkFailed(j, message) ==
  [j EXCEPT !.status = "failed", !.error = Some(message)]

AnalysisFailed(message) == << "Analysis failed: ", message >>

NoResponse == [statusCode |-> 200, sent |-> "none", body |-> None, error |-> << >>]

NoRequest == [user |-> "u1", upload |-> None, file |-> None]

\* job.save() of a document whose record is gone rejects (nothing is written)
SaveApplied(p, outcome) == outcome = "ok" /\ IsSet(db[p])

SaveError(p) == IF IsSet(db[p]) THEN DbErrorMessage ELSE NotFoundMessage

\* ---------------------------------------------------------------- initial
Init ==
  /\ pc = [p \in Passes |-> "idle"]
  /\ req = [p \in Passes |-> NoRequest]
  /\ db = [p \in Passes |-> None]
  /\ job = [p \in Passes |-> None]
  /\ mlOutcome = [p \in Passes |-> None]
  /\ res = [p \in Passes |-> NoResponse]
  /\ creates = [p \in Passes |-> 0]
  /\ writes = [p \in Passes |-> 0]
  /\ remoteCalls = [p \in Passes |-> 0]
  /\ unlinkCalls = [p \in Passes |-> 0]
  /\ stored = [p \in Passes |-> FALSE]
  /\ caught = [p \in Passes |-> None]
  /\ events = [p \in Passes |-> << >>]
  /\ deletedBy = [p \in Passes |-> None]
  /\ unlinkResult = [p \in Passes |-> None]
  /\ logged = [p \in Passes |-> << >>]
  /\ pageFile = None
  /\ uploading = FALSE
  /\ progress = 0
  /\ disabled = TRUE
  /\ inFlight = 0
  /\ clicks = 0
  /\ toasts = << >>
  /\ route = "/upload"
  /\ lsToken = None
  /\ lsUser = None
  /\ ctxToken = None
  /\ ctxUser = None
  /\ loading = FALSE
  /\ pendingLogin = 0
  /\ pendingSignup = 0
  /\ authOps = 0
  /\ selectedResult = None
  /\ loadingDetails = FALSE
  /\ fetches = [i \in SummaryItems |-> 0]
  /\ lastSelected = None
  /\ selections = 0
  /\ detailFailures = 0

\* ------------------------------------------------------------- responses
\* (mutant) the throw without res.status(400)
MissingArtifactWithoutStatus ==
  [statusCode |-> 200, sent |-> "raised", body |-> None,
   error |-> << "Please upload a file" >>]

\* res.status(400); throw new Error("Please upload a file")
MissingArtifact ==
  [statusCode |-> 400, sent |-> "raised", body |-> None,
   error |-> << "Please upload a file" >>]

\* res.status(200).json(job)
SuccessResponse(j) ==
  [statusCode |-> 200, sent |-> "json", body |-> Some(j), error |-> << >>]

\* (mutant) a catch branch that answers 200 instead of rethrowing
FailureSwallowed(message) ==
  [statusCode |-> 200, sent |-> "json", body |-> None, error |-> << >>]

\* res.status(500); throw new Error(`Analysis failed: ${error.message}`)
FailureRaise(message) ==
  [statusCode |-> 500, sent |-> "raised", body |-> None,
   error |-> AnalysisFailed(message)]

\* a rejection that leaves uploadFile (or multer) without touching res.status
Rejection(message) ==
  [statusCode |-> 200, sent |-> "raised", body |-> None, error |-> << message >>]

\* (mutant) a branch that forgets the unlink
UnlinkSkipped(n) == n

\* fs.unlink(req.file.path, cb) called once more
Unlink(n) == n + 1

\* (mutant) a client that tries the remote once more after a failure
CallsAfterRetry(n) == n + 1

\* axios.post calls issued once sendFileToMlService has thrown: no retry
CallsAfterFailure(n) == n

\* (mutant) the temp file removed before the terminal write
UnlinkThenSave(log) == log \o << "unlink", "persisted" >>

\* `await job.save()` applied, then fs.unlink(...), in both branches
SaveThenUnlink(log) == log \o << "persisted", "unlink" >>

\* (mutant) a handler that goes on to the remote call without its Job
CallsDespiteCreateRejected(n) == n + 1

\* axios.post calls issued when `await Job.create` rejected: the rejection
\* leaves uploadFile before its try block
CallsAfterCreateRejected(n) == n

\* (mutant) every pass saving into the first document of the collection
SavedIdShared(p) == 1

\* the document `job.save()` of pass p writes: the one its Job.create made
SavedId(p) == p

\* ---------------------------------------------------------------- actions
\* POST /api/upload arrives as `user` with the multipart part `up` (None: no
\* file part).  upload.single("file") filters and stores the file, then
\* uploadFile runs up to its first await, Job.create.
Request(p, user, up) ==
  /\ pc[p] = "idle"
  /\ IF p = 1 THEN TRUE ELSE pc[p - 1] # "idle"
  /\ IF up = None
       THEN \* uploadFile: !req.file
            /\ pc' = [pc EXCEPT ![p] = "raised"]
            /\ req' = [req EXCEPT ![p] = [user |-> user, upload |-> up, file |-> None]]
            /\ res' = [res EXCEPT ![p] = MissingArtifact]
            /\ UNCHANGED stored
       ELSE IF ~fileFilter(up[1].originalname)
         THEN \* cb(new Error("Please upload a CSV file")): uploadFile never runs
              /\ pc' = [pc EXCEPT ![p] = "rejected"]
              /\ req' = [req EXCEPT ![p] = [user |-> user, upload |-> up, file |-> None]]
              /\ res' = [res EXCEPT ![p] = Rejection("Please upload a CSV file")]
              /\ UNCHANGED stored
         ELSE IF up[1].size > FileSizeLimit
           THEN \* LIMIT_FILE_SIZE: multer removes what it wrote
                /\ pc' = [pc EXCEPT ![p] = "rejected"]
                /\ req' = [req EXCEPT ![p] = [user |-> user, upload |-> up, file |-> None]]
                /\ res' = [res EXCEPT ![p] = Rejection("File too large")]
                /\ UNCHANGED stored
           ELSE /\ pc' = [pc EXCEPT ![p] = "create"]
                /\ req' = [req EXCEPT ![p] = [user |-> user, upload |-> up, file |-> up]]
                /\ stored' = [stored EXCEPT ![p] = TRUE]
                /\ UNCHANGED res
  /\ UNCHANGED << db, job, mlOutcome, creates, writes, remoteCalls,
                  unlinkCalls, caught, events, deletedBy, aside >>

\* `await Job.create(...)` settles; when it resolved, the try block starts
\* and sendFileToMlService issues axios.post
CreateSettles(p, outcome) ==
  /\ pc[p] = "create"
  /\ IF outcome = "ok"
       THEN /\ db' = [db EXCEPT ![p] = Some(NewJob(req[p].user, req[p].file[1]))]
            /\ job' = [job EXCEPT ![p] = Some(NewJob(req[p].user, req[p].file[1]))]
            /\ creates' = [creates EXCEPT ![p] = @ + 1]
            /\ remoteCalls' = [remoteCalls EXCEPT ![p] = @ + 1]
            /\ events' = [events EXCEPT ![p] = @ \o << "created", "called" >>]
            /\ pc' = [pc EXCEPT ![p] = "remote"]
            /\ UNCHANGED res
       ELSE /\ pc' = [pc EXCEPT ![p] = "raised"]
            /\ res' = [res EXCEPT ![p] = Rejection(DbErrorMessage)]
            /\ remoteCalls' = [remoteCalls EXCEPT ![p] = CallsAfterCreateRejected(@)]
            /\ UNCHANGED << db, job, creates, events >>
  /\ UNCHANGED << req, mlOutcome, writes, unlinkCalls, stored, caught,
                  deletedBy, aside >>

\* `await axios.post(...)` settles to o; sendFileToMlService returns or
\* throws, and uploadFile runs its success or its catch branch up to job.save()
RemoteSettles(p, o) ==
  /\ pc[p] = "remote"
  /\ mlOutcome' = [mlOutcome EXCEPT ![p] = Some(o)]
  /\ events' = [events EXCEPT ![p] = Append(@, "resolved")]
  /\ LET r == sendFileToMlService(o) IN
     IF r.ok
       THEN /\ job' = [job EXCEPT ![p] = Some(MarkDone(job[p][1], r.data))]
            /\ pc' = [pc EXCEPT ![p] = "saveDone"]
            /\ UNCHANGED << caught, remoteCalls >>
       ELSE /\ job' = [job EXCEPT ![p] = Some(MarkFailed(job[p][1], r.message))]
            /\ caught' = [caught EXCEPT ![p] = Some(r.message)]
            /\ remoteCalls' = [remoteCalls EXCEPT ![p] = CallsAfterFailure(@)]
            /\ pc' = [pc EXCEPT ![p] = "saveFailed"]
  /\ UNCHANGED << req, db, res, creates, writes, unlinkCalls, stored,
                  deletedBy, aside >>

\* the success branch's `await job.save()` settles: unlink and respond, or
\* the rejection is caught by the same try's catch branch
SaveDoneSettles(p, outcome) ==
  /\ pc[p] = "saveDone"
  /\ IF SaveApplied(p, outcome)
       THEN /\ db' = [db EXCEPT ![SavedId(p)] = job[p]]
            /\ writes' = [writes EXCEPT ![p] = @ + 1]
            /\ unlinkCalls' = [unlinkCalls EXCEPT ![p] = Unlink(@)]
            /\ events' = [events EXCEPT ![p] = SaveThenUnlink(@)]
            /\ res' = [res EXCEPT ![p] = SuccessResponse(job[p][1])]
            /\ pc' = [pc EXCEPT ![p] = "responded"]
            /\ UNCHANGED << job, caught >>
       ELSE /\ job' = [job EXCEPT ![p] = Some(MarkFailed(job[p][1], SaveError(p)))]
            /\ caught' = [caught EXCEPT ![p] = Some(SaveError(p))]
            /\ pc' = [pc EXCEPT ![p] = "saveFailed"]
            /\ UNCHANGED << db, writes, unlinkCalls, res, events >>
  /\ UNCHANGED << req, mlOutcome, creates, remoteCalls, stored, deletedBy,
                  aside >>

\* the catch branch's `await job.save()` settles: unlink and rethrow with
\* status 500, or the rejection leaves uploadFile
SaveFailedSettles(p, outcome) ==
  /\ pc[p] = "saveFailed"
  /\ IF SaveApplied(p, outcome)
       THEN /\ db' = [db EXCEPT ![SavedId(p)] = job[p]]
            /\ writes' = [writes EXCEPT ![p] = @ + 1]
            /\ unlinkCalls' = [unlinkCalls EXCEPT ![p] = Unlink(@)]
            /\ events' = [events EXCEPT ![p] = SaveThenUnlink(@)]
            /\ res' = [res EXCEPT ![p] = FailureRaise(caught[p][1])]
       ELSE /\ res' = [res EXCEPT ![p] = Rejection(SaveError(p))]
            /\ UNCHANGED << db, writes, unlinkCalls, events >>
  /\ pc' = [pc EXCEPT ![p] = "raised"]
  /\ UNCHANGED << req, job, mlOutcome, creates, remoteCalls, stored,
                  caught, deletedBy, aside >>

\* ------------------------------------------------------ jobs query surface
\* the callers are the users `protect` let through (req.user is set)

\* (mutant) a list query without the { user: req.user.id } filter
getJobsUnfiltered(d, caller) ==
  { [id |-> id,
     job |-> [f \in DOMAIN d[id][1] \ {"results"} |-> d[id][1][f]]] :
    id \in {i \in DOMAIN d : IsSet(d[i])} }

\* getJobs over the collection d: the caller's documents, each without its
\* results field (.select("-results")).  The answer is taken as a set: the
\* createdAt order of the list is not modelled.
getJobsOver(d, caller) ==
  { [id |-> id,
     job |-> [f \in DOMAIN d[id][1] \ {"results"} |-> d[id][1][f]]] :
    id \in {i \in DOMAIN d : IsSet(d[i]) /\ d[i][1].user = caller} }

\* GET /api/jobs answered to `caller`
getJobsResponse(caller) ==
  [statusCode |-> 200, jobs |-> getJobsOver(db, caller)]

\* GET /api/jobs/:id answered to `caller`
getJobResponse(caller, id) ==
  IF id = MalformedId
    THEN \* Job.findById rejects before any res.status(...)
         [statusCode |-> 200, error |-> CastErrorMessage, body |-> None]
  ELSE IF db[id] = None
    THEN [statusCode |-> 404, error |-> "Job not found", body |-> None]
    ELSE IF db[id][1].user # caller
      THEN [statusCode |-> 401, error |-> "User not authorized", body |-> None]
      ELSE [statusCode |-> 200, error |-> "", body |-> db[id]]

\* (mutant) a delete without the ownership check
deleteJobResponseAnyCaller(caller, id) ==
  IF id = MalformedId
    THEN [statusCode |-> 200, error |-> CastErrorMessage]
  ELSE IF db[id] = None
    THEN [statusCode |-> 404, error |-> "Job not found"]
    ELSE [statusCode |-> 200, error |-> ""]

\* deleteJob's answer to `caller` for :id, from the collection as it is
deleteJobResponse(caller, id) ==
  IF id = MalformedId
    THEN \* Job.findById rejects before any res.status(...)
         [statusCode |-> 200, error |-> CastErrorMessage]
  ELSE IF db[id] = None
    THEN [statusCode |-> 404, error |-> "Job not found"]
    ELSE IF db[id][1].user # caller
      THEN [statusCode |-> 401, error |-> "User not authorized"]
      ELSE [statusCode |-> 200, error |-> ""]

\* the handler reached its res.status(200).json(...)
Granted(r) == r.statusCode = 200 /\ r.error = ""

\* GET /api/jobs as `caller`: reads only
getJobs(caller) ==
  /\ getJobsResponse(caller).statusCode = 200
  /\ UNCHANGED vars

\* GET /api/jobs/:id as `caller`: reads only
getJob(caller, id) ==
  /\ \/ Granted(getJobResponse(caller, id))
     \/ getJobResponse(caller, id).error # ""
  /\ UNCHANGED vars

\* DELETE /api/jobs/:id as `caller`: job.deleteOne() runs only past both
\* checks; a rejected request changes nothing
deleteJob(caller, id) ==
  /\ IF Granted(deleteJobResponse(caller, id))
       THEN /\ db' = [db EXCEPT ![id] = None]
            /\ deletedBy' = [deletedBy EXCEPT ![id] = Some(caller)]
       ELSE UNCHANGED << db, deletedBy >>
  /\ UNCHANGED << pc, req, job, mlOutcome, res, creates, writes, remoteCalls,
                  unlinkCalls, stored, caught, events, aside >>

Next ==
  \/ \E p \in Passes, user \in Users, up \in {None} \cup {Some(f) : f \in Uploads} :
       Request(p, user, up)
  \/ \E p \in Passes, outcome \in WriteOutcomes : CreateSettles(p, outcome)
  \/ \E p \in Passes, o \in AxiosOutcomes : RemoteSettles(p, o)
  \/ \E p \in Passes, outcome \in WriteOutcomes : SaveDoneSettles(p, outcome)
  \/ \E p \in Passes, outcome \in WriteOutcomes : SaveFailedSettles(p, outcome)
  \* the DELETE requests that get past both checks (a refused one is a
  \* step that changes nothing: those are taken in NextWithQueries)
  \/ \E id \in Passes :
       \E caller \in {c \in Users : Granted(deleteJobResponse(c, id))} :
         deleteJob(caller, id)

\* the submissions together with every request to the jobs query surface,
\* the refused ones included
NextWithQueries ==
  \/ Next
  \/ \E caller \in Users : getJobs(caller)
  \/ \E caller \in Users, id \in RouteIds : getJob(caller, id)
  \/ \E caller \in Users, id \in RouteIds : deleteJob(caller, id)

Spec == Init /\ [][Next]_vars

\* every await of a pass settles: the remote call resolves (response,
\* transport failure or the 120000 ms timeout) and every database write
\* completes, with either outcome
AwaitsSettle ==
  \A p \in Passes :
    /\ WF_vars(\E outcome \in WriteOutcomes : CreateSettles(p, outcome))
    /\ WF_vars(\E o \in AxiosOutcomes : RemoteSettles(p, o))
    /\ WF_vars(\E outcome \in WriteOutcomes : SaveDoneSettles(p, outcome))
    /\ WF_vars(\E outcome \in WriteOutcomes : SaveFailedSettles(p, outcome))

LiveSpec == Init /\ [][Next]_vars /\ AwaitsSettle

\* (mutant) an unlink callback that escalates its error to the caller
UnlinkCallbackEscalates(r, err) ==
  IF err = "" THEN r ELSE Rejection(err)

\* the response of the pass once the unlink callback has run: the callback
\* has no access to res and throws nothing
UnlinkCallback(r, err) == r

\* (err) => { if (err) console.error("Failed to delete temp file:", err) }
ConsoleError(log, err) ==
  IF err = "" THEN log ELSE Append(log, << "Failed to delete temp file:", err >>)

\* fs.unlink of pass p completes and calls back with err; by then the handler
\* has answered or rethrown in the tick that called fs.unlink
UnlinkSettles(p, err) ==
  /\ unlinkCalls[p] > 0
  /\ unlinkResult[p] = None
  /\ unlinkResult' = [unlinkResult EXCEPT ![p] = Some(err)]
  /\ logged' = [logged EXCEPT ![p] = ConsoleError(@, err)]
  /\ res' = [res EXCEPT ![p] = UnlinkCallback(@, err)]
  /\ UNCHANGED << pc, req, db, job, mlOutcome, creates, writes, remoteCalls,
                  unlinkCalls, stored, caught, events, deletedBy, browser >>

\* the submissions together with the completions of their fs.unlink calls
NextWithCleanup ==
  \/ Next
  \/ \E p \in Passes, err \in UnlinkErrors : UnlinkSettles(p, err)

SpecWithCleanup == Init /\ [][NextWithCleanup]_vars

SpecWithQueries == Init /\ [][NextWithQueries]_vars

\* ============================================================== properties
Terminal == {"done", "failed"}

\* the request has left uploadFile: 200 sent, or an error handed to next()
Completed(p) == pc[p] \in {"responded", "raised"}

\* axios.post of pass p settled to an error
RemoteFailed(p) == IsSet(mlOutcome[p]) /\ ~mlOutcome[p][1].resolved

\* the message sendFileToMlService threw in pass p
RemoteMessage(p) == sendFileToMlService(mlOutcome[p][1]).message

\* C1 (as claimed): when a submission with a file present completes, exactly
\* one Job was created for it and its persisted status is 'done' or 'failed',
\* never 'pending', whatever the remote call and each job.save() settled to.
C1_NoPendingAtCompletion ==
  \A p \in Passes :
    (Completed(p) /\ remoteCalls[p] > 0) =>
      /\ creates[p] = 1
      /\ IsSet(db[p]) => db[p][1].status \in Terminal

\* C2 (as claimed): once a Job's status is 'done' or 'failed', no step
\* assigns (in memory) or persists a different status.
C2_TerminalStatusIsFinal ==
  [][\A p \in Passes :
       /\ (IsSet(job[p]) /\ job[p][1].status \in Terminal)
            => job'[p][1].status = job[p][1].status
       /\ (IsSet(db[p]) /\ db[p][1].status \in Terminal /\ IsSet(db'[p]))
            => db'[p][1].status = db[p][1].status]_vars

\* C3 (as claimed): after a failed remote call uploadFile returns
\* successfully to its caller (no fault is raised) with the persisted Job in
\* 'failed' state.  Stated for the passes whose failure write was applied.
C3_RemoteFailureReturnsJob ==
  \A p \in Passes :
    (Completed(p) /\ RemoteFailed(p) /\ writes[p] = 1) =>
      /\ res[p].sent = "json"
      /\ res[p].statusCode = 200
      /\ IsSet(db[p]) => db[p][1].status = "failed"

\* C3 (amended): after a failed remote call uploadFile never answers 200: it
\* raises.  Either the catch branch's write was applied, the Job (while it
\* exists) is 'failed' carrying the client's message and the fault is
\* status 500 "Analysis failed: <message>"; or that write was rejected and
\* its rejection is the fault, the Job (while it exists) still 'pending'.
\* So the faults uploadFile raises are the missing-artifact rejection, the
\* 500 "Analysis failed" fault and the rejections of its database writes.
C3_RemoteFailureIsRaised ==
  \A p \in Passes :
    /\ (Completed(p) /\ RemoteFailed(p)) =>
         /\ res[p].sent = "raised"
         /\ res[p] # MissingArtifact
         /\ \/ /\ res[p] = FailureRaise(RemoteMessage(p))
               /\ writes[p] = 1
               /\ IsSet(db[p]) =>
                    /\ db[p][1].status = "failed"
                    /\ db[p][1].error = Some(RemoteMessage(p))
            \/ /\ res[p] \in {Rejection(DbErrorMessage), Rejection(NotFoundMessage)}
               /\ writes[p] = 0
               /\ IsSet(db[p]) => db[p][1].status = "pending"
    /\ pc[p] = "raised" =>
         \/ res[p] = MissingArtifact /\ req[p].upload = None
         \/ IsSet(caught[p]) /\ res[p] = FailureRaise(caught[p][1])
         \/ res[p] \in {Rejection(DbErrorMessage), Rejection(NotFoundMessage)}

C3_Witness ==
  \E p \in Passes :
    /\ pc[p] = "raised" /\ RemoteFailed(p)
    /\ res[p].statusCode = 500
    /\ IsSet(db[p]) /\ db[p][1].status = "failed"

\* C4 (as claimed): a persisted Job has completedAt set exactly when its
\* status is 'done' or 'failed'.
C4_CompletedAtIffTerminal ==
  \A p \in Passes :
    IsSet(db[p]) =>
      (IsSet(db[p][1].completedAt) <=> db[p][1].status \in Terminal)

\* C5: fs.unlink is never invoked twice on a submission's temp file, and when
\* a submission has completed with its Job persisted as 'done' or 'failed',
\* fs.unlink has been invoked on its temp file exactly once.
C5_UnlinkExactlyOnce ==
  \A p \in Passes :
    /\ unlinkCalls[p] <= 1
    /\ (Completed(p) /\ IsSet(db[p]) /\ db[p][1].status \in Terminal)
         => unlinkCalls[p] = 1

C5_Witness ==
  /\ \E p \in Passes :
       pc[p] = "responded" /\ IsSet(db[p]) /\ db[p][1].status = "done"
         /\ unlinkCalls[p] = 1
  /\ \E p \in Passes :
       pc[p] = "raised" /\ IsSet(db[p]) /\ db[p][1].status = "failed"
         /\ unlinkCalls[p] = 1

\* C6 (as claimed): every completed submission whose file multer stored has
\* had fs.unlink invoked on that file.
C6_ReleasedOnEveryExit ==
  \A p \in Passes : (Completed(p) /\ stored[p]) => unlinkCalls[p] >= 1

\* C7 (as claimed): after a failed remote call the completed submission's
\* persisted Job is 'failed' with a non-empty error message.
C7_RemoteFailureMakesJobFailed ==
  \A p \in Passes :
    (Completed(p) /\ RemoteFailed(p) /\ IsSet(db[p])) =>
      /\ db[p][1].status = "failed"
      /\ IsSet(db[p][1].error)
      /\ db[p][1].error # Some("")

\* C8: a submission that reaches uploadFile without a file is answered with
\* status 400 "Please upload a file" and nothing else happens: no Job is
\* created or written, the remote is not called, no unlink is attempted.
C8_MissingArtifactHasNoEffect ==
  \A p \in Passes :
    (pc[p] # "idle" /\ req[p].upload = None) =>
      /\ pc[p] = "raised"
      /\ res[p].statusCode = 400
      /\ res[p].sent = "raised"
      /\ res[p].error = << "Please upload a file" >>
      /\ db[p] = None /\ job[p] = None
      /\ creates[p] = 0 /\ writes[p] = 0
      /\ remoteCalls[p] = 0 /\ unlinkCalls[p] = 0
      /\ ~stored[p]

C8_Witness ==
  \E p \in Passes : pc[p] = "raised" /\ req[p].upload = None

\* C9 (as claimed): a persisted Job has summary and results set if and only
\* if its status is 'done'.
C9_PayloadIffDone ==
  \A p \in Passes :
    IsSet(db[p]) =>
      /\ db[p][1].status = "done"
           => (IsSet(db[p][1].summary) /\ IsSet(db[p][1].results))
      /\ db[p][1].status # "done"
           => (~IsSet(db[p][1].summary) /\ ~IsSet(db[p][1].results))

\* C10: a persisted Job has its error field set if and only if its status
\* is 'failed'.
C10_ErrorIffFailed ==
  \A p \in Passes :
    IsSet(db[p]) => (IsSet(db[p][1].error) <=> db[p][1].status = "failed")

C10_Witness ==
  /\ \E p \in Passes :
       IsSet(db[p]) /\ db[p][1].status = "failed" /\ IsSet(db[p][1].error)
  /\ \E p \in Passes :
       IsSet(db[p]) /\ db[p][1].status = "done" /\ ~IsSet(db[p][1].error)

\* axios.post of pass p settled to a 2xx response
RemoteSucceeded(p) == IsSet(mlOutcome[p]) /\ mlOutcome[p][1].resolved

\* C11 (as claimed): when the remote call succeeded with payload P, the
\* completed submission answered 200 with the Job, and that Job is persisted
\* (while it exists) with status 'done', summary = P.summary, results = P
\* itself and completedAt set.
C11_SuccessPersistsPayload ==
  \A p \in Passes :
    (Completed(p) /\ RemoteSucceeded(p)) =>
      LET P == mlOutcome[p][1].data IN
      /\ res[p].sent = "json" /\ res[p].statusCode = 200
      /\ IsSet(res[p].body)
      /\ res[p].body[1].status = "done"
      /\ res[p].body[1].summary = Some(P.summary)
      /\ res[p].body[1].results = Some(P)
      /\ IsSet(res[p].body[1].completedAt)
      /\ IsSet(db[p]) => db[p] = res[p].body

\* the remote answered pass p with a non-success status (error.response set)
RemoteRejected(p) == RemoteFailed(p) /\ IsSet(mlOutcome[p][1].response)

\* C12 (as claimed): when the remote answered with a non-success status, the
\* client's failure message is the error body's message field when the body
\* carries a (non-empty) one and "ML Service Failed" otherwise, also when the
\* body is absent; and the Job persisted by the failure write carries it.
C12_RejectedMessageOrFallback ==
  \A p \in Passes :
    RemoteRejected(p) =>
      LET body == mlOutcome[p][1].response[1].data
          expected ==
            IF IsSet(body) /\ IsSet(body[1].message) /\ body[1].message[1] # ""
              THEN body[1].message[1]
              ELSE "ML Service Failed"
      IN /\ RemoteMessage(p) = expected
         /\ (Completed(p) /\ writes[p] = 1 /\ IsSet(db[p]))
              => db[p][1].error = Some(expected)

\* the request of pass p was sent and no response came back
RemoteUnreachable(p) ==
  RemoteFailed(p) /\ ~IsSet(mlOutcome[p][1].response) /\ mlOutcome[p][1].request

\* C13 (as claimed): when no response was received the client fails with
\* "ML Service did not respond", and the completed submission's Job (while it
\* exists) is 'failed' with that message and its temp file was released.
C13_NoResponseMakesJobFailed ==
  \A p \in Passes :
    RemoteUnreachable(p) =>
      /\ RemoteMessage(p) = "ML Service did not respond"
      /\ Completed(p) =>
           /\ unlinkCalls[p] = 1
           /\ IsSet(db[p]) =>
                /\ db[p][1].status = "failed"
                /\ db[p][1].error = Some("ML Service did not respond")

\* neither a response nor a request: the call could not be attempted
RequestConstructionFailed(p) ==
  RemoteFailed(p) /\ ~IsSet(mlOutcome[p][1].response) /\ ~mlOutcome[p][1].request

\* C14 (as claimed): every invocation of sendFileToMlService ends in exactly
\* one of four outcomes: it returns the response body, or it throws the Error of
\* the branch the response / request presence selects (rejected, unreachable,
\* construction failed with the original message); no other error escapes it.
C14_ClassificationIsTotal ==
  \A p \in Passes :
    IsSet(mlOutcome[p]) =>
      LET o == mlOutcome[p][1]
          r == sendFileToMlService(o)
      IN /\ r.ok <=> RemoteSucceeded(p)
         /\ r.ok => r.data = o.data
         /\ ~r.ok => r.name = "Error"
         /\ RemoteUnreachable(p) => r.message = "ML Service did not respond"
         /\ RequestConstructionFailed(p) => r.message = o.message
         /\ LET class == << RemoteSucceeded(p), RemoteRejected(p),
                            RemoteUnreachable(p), RequestConstructionFailed(p) >>
            IN Cardinality({i \in 1 .. 4 : class[i]}) = 1

\* C15: the remote endpoint is called at most once per submission; after a
\* failed attempt the count stays at one, and a Job that reached a terminal
\* status after that failure is 'failed' with the first failure's message.
C15_NoRetry ==
  \A p \in Passes :
    /\ remoteCalls[p] <= 1
    /\ IsSet(mlOutcome[p]) => remoteCalls[p] = 1
    /\ (RemoteFailed(p) /\ IsSet(db[p]) /\ db[p][1].status \in Terminal) =>
         /\ db[p][1].status = "failed"
         /\ db[p][1].error = Some(RemoteMessage(p))

\* a submission completed after its single remote call failed
C15_Witness ==
  \E p \in Passes :
    /\ Completed(p) /\ RemoteFailed(p) /\ remoteCalls[p] = 1
    /\ IsSet(db[p]) /\ db[p][1].status = "failed"

\* event a occurs in the log before position i
Before(log, a, i) == \E j \in 1 .. (i - 1) : log[j] = a

\* C16: within one submission the remote call resolves before the terminal
\* status is persisted, and the terminal status is persisted before fs.unlink
\* is invoked, in the success and in the failure branch alike.
C16_ResolvePersistUnlink ==
  \A p \in Passes :
    \A i \in 1 .. Len(events[p]) :
      /\ events[p][i] = "resolved" => Before(events[p], "called", i)
      /\ events[p][i] = "persisted" => Before(events[p], "resolved", i)
      /\ events[p][i] = "unlink" => Before(events[p], "persisted", i)

\* one submission went through the success branch and one through the failure
\* branch, each as far as its unlink
C16_Witness ==
  \E p, q \in Passes :
    /\ RemoteSucceeded(p) /\ RemoteFailed(q)
    /\ \A r \in {p, q} :
         /\ \E i \in 1 .. Len(events[r]) : events[r][i] = "unlink"
         /\ db[r] # None /\ db[r][1].status \in Terminal

\* C17 (as claimed): a completed pass with a file present performed exactly
\* two durable writes of its Job (the insert as 'pending' and one write of the
\* terminal state) and exactly one fs.unlink attempt, whatever the remote call
\* and the writes settled to.
C17_TwoWritesOneUnlink ==
  \A p \in Passes :
    (Completed(p) /\ stored[p]) =>
      /\ creates[p] = 1
      /\ writes[p] = 1
      /\ unlinkCalls[p] = 1

\* pass p created its Job and its terminal write has not settled yet
InFlight(p) == pc[p] \in {"remote", "saveDone", "saveFailed"}

\* C18 (as claimed): between the creation of a Job as 'pending' and its
\* terminal write, the owner's getJobs and getJob requests do not return that
\* Job and deleteJob does not remove it, so the record is there for the
\* terminal write.
C18_PendingJobIsIsolated ==
  \A p \in Passes :
    InFlight(p) =>
      /\ IsSet(db[p])
      /\ getJobResponse(req[p].user, p).statusCode # 200
      /\ \A e \in getJobsResponse(req[p].user).jobs : e.id # p
      /\ deleteJobResponse(req[p].user, p).statusCode # 200

\* a caller other than the owner is refused and has removed nothing
NonOwnerIsRefused ==
  \A id \in Passes :
    /\ IsSet(deletedBy[id]) => deletedBy[id] = Some(req[id].user)
    /\ IsSet(db[id]) =>
         \A caller \in Users \ {db[id][1].user} :
           deleteJobResponse(caller, id) =
             [statusCode |-> 401, error |-> "User not authorized"]

\* a step that removes a Job is the owner's deleteJob and nothing else of it
RemovedOnlyByOwner ==
  \A id \in Passes :
    (IsSet(db[id]) /\ db'[id] = None) =>
      /\ deletedBy[id] = None
      /\ deletedBy'[id] = Some(db[id][1].user)
      /\ \A other \in Passes \ {id} : db'[other] = db[other]
      /\ UNCHANGED << pc, req, job, mlOutcome, res, creates, writes,
                      remoteCalls, unlinkCalls, stored, caught, events >>

\* C19: a Job is removed only by deleteJob invoked by its owner; a deleteJob
\* whose caller differs from the Job's user fails with "User not authorized"
\* and leaves the record unchanged, and no other operation removes a Job.
C19_OnlyOwnerDeletes == []NonOwnerIsRefused /\ [][RemovedOnlyByOwner]_vars

\* the owner deleted one Job while another user's Job is still on record
C19_Witness ==
  \E id, other \in Passes :
    /\ db[id] = None /\ IsSet(deletedBy[id])
    /\ IsSet(db[other]) /\ db[other][1].user # deletedBy[id][1]

\* documents some user other than `caller` may own: a pending Job and a
\* finished one carrying a results payload
ForeignJobs(caller) ==
  UNION { { NewJob(u, [originalname |-> NameCsv, size |-> FileSizeLimit]),
            MarkDone(NewJob(u, [originalname |-> NameCsv, size |-> FileSizeLimit]),
                     pl) } : u \in Users \ {caller}, pl \in Payloads }

\* what slot i of a collection may hold when only other users' Jobs differ:
\* the caller's own document as it is, otherwise nothing or a foreign Job
ForeignSlot(caller, i) ==
  IF IsSet(db[i]) /\ db[i][1].user = caller
    THEN {db[i]}
    ELSE {None} \cup {Some(j) : j \in ForeignJobs(caller)}

\* the collections over slots 1 .. n that differ from db only in Jobs owned
\* by other users
RECURSIVE ForeignVariantsUpTo(_, _)
ForeignVariantsUpTo(caller, n) ==
  IF n = 0
    THEN {<< >>}
    ELSE {Append(d, x) : d \in ForeignVariantsUpTo(caller, n - 1),
                         x \in ForeignSlot(caller, n)}

ForeignVariants(caller) == ForeignVariantsUpTo(caller, MaxPasses)

\* C20: getJobs returns only Jobs whose user is the caller, each without its
\* results payload; getJob returns a Job's content only to its owner and
\* answers "User not authorized" to anyone else; and collections that differ
\* only in other users' Jobs give the caller the same getJobs answer.
C20_NoDisclosureToNonOwner ==
  \A caller \in Users :
    /\ \A e \in getJobsResponse(caller).jobs :
         /\ IsSet(db[e.id]) /\ db[e.id][1].user = caller
         /\ e.job.user = caller
         /\ "results" \notin DOMAIN e.job
    /\ \A id \in Passes :
         /\ IsSet(getJobResponse(caller, id).body) =>
              IsSet(db[id]) /\ db[id][1].user = caller
         /\ (IsSet(db[id]) /\ db[id][1].user # caller) =>
              getJobResponse(caller, id) =
                [statusCode |-> 401, error |-> "User not authorized",
                 body |-> None]
    /\ \A d \in ForeignVariants(caller) :
         getJobsOver(d, caller) = getJobsOver(db, caller)

\* Jobs of two owners are on record, one of them finished with its payload
C20_Witness ==
  \E a, b \in Passes :
    /\ IsSet(db[a]) /\ IsSet(db[b])
    /\ db[a][1].user # db[b][1].user
    /\ IsSet(db[a][1].results)
    /\ getJobsResponse(db[b][1].user).jobs # {}
    /\ getJobResponse(db[b][1].user, a).statusCode = 401

\* the :id of a request names no Job: it is no ObjectId, or no document has it
NoSuchJob(id) == id = MalformedId \/ db[id] = None

\* C21 (as claimed): getJob and deleteJob on an id for which no Job exists
\* fail with 404 "Job not found", whoever the caller is.
C21_NotFoundForEveryCaller ==
  \A id \in RouteIds :
    NoSuchJob(id) =>
      \A caller \in Users :
        /\ getJobResponse(caller, id) =
             [statusCode |-> 404, error |-> "Job not found", body |-> None]
        /\ deleteJobResponse(caller, id) =
             [statusCode |-> 404, error |-> "Job not found"]

\* what the branch of pass p that called fs.unlink answered
BranchResponse(p) ==
  IF job[p][1].status = "done"
    THEN SuccessResponse(job[p][1])
    ELSE FailureRaise(caught[p][1])

\* whatever fs.unlink handed its callback, the pass has its branch's response
\* and its Job (while on record) is the document the branch saved; an error
\* is logged and nothing else
CleanupIsOnlyLogged ==
  \A p \in Passes :
    IsSet(unlinkResult[p]) =>
      /\ Completed(p)
      /\ res[p] = BranchResponse(p)
      /\ IsSet(db[p]) => db[p] = job[p]
      /\ logged[p] = IF unlinkResult[p][1] = ""
                       THEN << >>
                       ELSE << << "Failed to delete temp file:", unlinkResult[p][1] >> >>

\* the step in which the callback runs changes neither the Job nor the response
CleanupChangesNothing ==
  \A p \in Passes :
    unlinkResult'[p] # unlinkResult[p] =>
      UNCHANGED << pc, db, job, res, caught >>

\* C22: a failure of the temp-file removal never changes the submission's
\* outcome: whether fs.unlink succeeds, fails or finds the file already gone,
\* the Job's persisted fields and the response are the same; the failure is
\* only logged.
C22_CleanupNeverEscalates ==
  []CleanupIsOnlyLogged /\ [][CleanupChangesNothing]_vars

\* one removal found its file already gone after a 200 answer, another one
\* failed after a raised 500
C22_Witness ==
  \E p, q \in Passes :
    /\ unlinkResult[p] = Some("ENOENT") /\ res[p].statusCode = 200
    /\ IsSet(db[p]) /\ db[p][1].status = "done"
    /\ unlinkResult[q] = Some("EACCES") /\ res[q].statusCode = 500
    /\ IsSet(db[q]) /\ db[q][1].status = "failed"

\* the Job a completed pass leaves on record, from that pass's own request,
\* remote outcome and writes alone
OwnFinal(p) ==
  LET created == NewJob(req[p].user, req[p].file[1]) IN
  IF writes[p] = 0
    THEN created
    ELSE IF RemoteSucceeded(p)
      THEN IF caught[p] = None
             THEN MarkDone(created, mlOutcome[p][1].data)
             ELSE MarkFailed(MarkDone(created, mlOutcome[p][1].data), DbErrorMessage)
      ELSE MarkFailed(created, RemoteMessage(p))

\* a completed pass's Job is what the pass alone would have left
OwnStateOnly ==
  \A p \in Passes :
    (Completed(p) /\ IsSet(db[p])) =>
      /\ IsSet(req[p].file)
      /\ db[p] = Some(OwnFinal(p))

\* a step that is not a step of pass q leaves everything of q as it was,
\* except that a deleteJob may take q's Job off the record
PassesDoNotInterfere ==
  \A q \in Passes :
    pc'[q] = pc[q] =>
      /\ req'[q] = req[q] /\ job'[q] = job[q] /\ res'[q] = res[q]
      /\ mlOutcome'[q] = mlOutcome[q] /\ caught'[q] = caught[q]
      /\ creates'[q] = creates[q] /\ writes'[q] = writes[q]
      /\ remoteCalls'[q] = remoteCalls[q] /\ unlinkCalls'[q] = unlinkCalls[q]
      /\ stored'[q] = stored[q] /\ events'[q] = events[q]
      /\ \/ db'[q] = db[q]
         \/ db'[q] = None /\ deletedBy'[q] # deletedBy[q]

\* C23: in any interleaving of uploadFile passes each pass writes only the
\* Job it created and unlinks only its own temp file, and each Job's final
\* state is the one its own pass would have reached alone.
C23_PassesAreIndependent == []OwnStateOnly /\ [][PassesDoNotInterfere]_vars

\* a later submission has failed and completed while an earlier one is still
\* waiting for the remote call, its Job still pending
C23_Witness ==
  \E p, q \in Passes :
    /\ p < q
    /\ pc[p] = "remote" /\ IsSet(db[p]) /\ db[p][1].status = "pending"
    /\ Completed(q) /\ IsSet(db[q]) /\ db[q][1].status = "failed"
    /\ unlinkCalls[p] = 0 /\ unlinkCalls[q] = 1

\* the upload's original name ends in ".csv"
EndsInCsv(name) ==
  \E k \in 1 .. Len(name) :
    /\ k + 3 = Len(name)
    /\ name[k] = "." /\ name[k + 1] = "c" /\ name[k + 2] = "s" /\ name[k + 3] = "v"

\* uploadFile was invoked for request p
Invoked(p) == pc[p] \notin {"idle", "rejected"}

\* C24: uploadFile is never invoked with, and no Job is created for, a file
\* whose original name does not end in ".csv" or whose size exceeds 10 MB;
\* such a submission is rejected by the upload route before uploadFile runs.
C24_IngressChecksFirst ==
  \A p \in Passes :
    /\ (IsSet(req[p].upload) /\ pc[p] # "idle"
          /\ (~EndsInCsv(req[p].upload[1].originalname)
                \/ req[p].upload[1].size > FileSizeLimit)) =>
         /\ pc[p] = "rejected" /\ res[p].sent = "raised"
         /\ req[p].file = None /\ ~stored[p]
         /\ creates[p] = 0 /\ db[p] = None /\ remoteCalls[p] = 0
    /\ (Invoked(p) /\ IsSet(req[p].file)) =>
         /\ EndsInCsv(req[p].file[1].originalname)
         /\ req[p].file[1].size <= FileSizeLimit
    /\ IsSet(db[p]) =>
         /\ EndsInCsv(db[p][1].filename)
         /\ IsSet(req[p].file) /\ req[p].file[1].size <= FileSizeLimit

\* one submission was refused for its name, one for its size, and neither
\* reached uploadFile
C24_Witness ==
  \E p, q \in Passes :
    /\ pc[p] = "rejected" /\ ~EndsInCsv(req[p].upload[1].originalname)
    /\ pc[q] = "rejected" /\ EndsInCsv(req[q].upload[1].originalname)
    /\ req[q].upload[1].size > FileSizeLimit
    /\ creates[p] = 0 /\ creates[q] = 0

\* a pass that issued a remote call had created its Job, and the call comes
\* after the creation in the pass's own order
CalledOnlyIfCreated ==
  \A p \in Passes :
    /\ remoteCalls[p] > 0 => creates[p] = 1
    /\ creates[p] = 0 => remoteCalls[p] = 0
    /\ \A i \in 1 .. Len(events[p]) :
         events[p][i] = "called" => Before(events[p], "created", i)

\* in the step that starts a remote call, the pass's Job is on record as
\* 'pending' with the caller's id and the file's original name
PendingWhenCalled ==
  \A p \in Passes :
    remoteCalls'[p] > remoteCalls[p] =>
      /\ IsSet(db'[p])
      /\ db'[p][1].status = "pending"
      /\ db'[p][1].user = req[p].user
      /\ db'[p][1].filename = req[p].file[1].originalname
      /\ creates'[p] = 1

\* C25: the remote service is called only after the Job was durably created
\* as 'pending': no remote call when Job.create fails, and whenever a remote
\* call starts there is a persisted 'pending' Job with the caller's identity
\* and the file's original name.
C25_CreateBeforeRemote == []CalledOnlyIfCreated /\ [][PendingWhenCalled]_vars

\* one pass waits for its remote call with its pending Job on record, another
\* lost its Job.create and never called the remote
C25_Witness ==
  \E p, q \in Passes :
    /\ pc[p] = "remote" /\ remoteCalls[p] = 1
    /\ IsSet(db[p]) /\ db[p][1].status = "pending"
    /\ pc[q] = "raised" /\ IsSet(req[q].file) /\ creates[q] = 0
    /\ remoteCalls[q] = 0

\* a Job on record carries its submitter's id and its upload's original name
OwnerAndNameAsSubmitted ==
  \A id \in Passes :
    IsSet(db[id]) =>
      /\ db[id][1].user = req[id].user
      /\ db[id][1].filename = req[id].file[1].originalname

\* no step changes the user or the filename of a Job that stays on record
OwnerAndNameKept ==
  \A id \in Passes :
    (IsSet(db[id]) /\ IsSet(db'[id])) =>
      /\ db'[id][1].user = db[id][1].user
      /\ db'[id][1].filename = db[id][1].filename

\* C26: a Job's user and filename are fixed at creation: neither terminal
\* write of uploadFile nor getJobs, getJob or a refused deleteJob changes
\* them, so for the Job's whole life they are the submitting caller's id and
\* the uploaded file's original name.
C26_OwnerAndNameImmutable ==
  []OwnerAndNameAsSubmitted /\ [][OwnerAndNameKept]_vars

\* a 'done' and a 'failed' Job of different owners are on record
C26_Witness ==
  \E a, b \in Passes :
    /\ IsSet(db[a]) /\ db[a][1].status = "done" /\ writes[a] = 1
    /\ IsSet(db[b]) /\ db[b][1].status = "failed" /\ writes[b] = 1
    /\ db[a][1].user # db[b][1].user
    /\ db[a][1].filename = NameCsv

\* the Job of pass p is on record as 'pending'
Pending(p) == IsSet(db[p]) /\ db[p][1].status = "pending"

\* C27 (as claimed): when every await settles, every uploadFile pass
\* eventually completes and every Job created as 'pending' eventually becomes
\* 'done' or 'failed'.
C27_EveryPendingJobTerminates ==
  \A p \in Passes :
    /\ Invoked(p) ~> Completed(p)
    /\ Pending(p) ~> (IsSet(db[p]) /\ db[p][1].status \in Terminal)

\* ------------------------------------------------------------ Upload page
\* (mutant) a button that is disabled only while no file is selected
ButtonDisabledWithoutUploading(f, u) == f = None

\* disabled={!file || uploading}
ButtonDisabled(f, u) == f = None \/ u

\* FileUploader calls onFileSelect (setFile) with a file, or with null from
\* removeFile; the change event's update is rendered before the next event
onFileSelect(f) ==
  /\ route = "/upload"
  /\ pageFile' = f
  /\ disabled' = ButtonDisabled(f, uploading)
  /\ UNCHANGED << uploading, progress, inFlight, clicks, toasts, route >>
  /\ UNCHANGED offUploadPage

\* a click on "Run Analysis" reaches handleUpload (a disabled button gives
\* no click): up to `await mlService.uploadFile(...)`, then the render of
\* the click's updates
handleUpload ==
  /\ route = "/upload"
  /\ ~disabled
  /\ clicks < MaxClicks
  /\ clicks' = clicks + 1
  /\ IF pageFile = None
       THEN UNCHANGED << uploading, progress, inFlight, disabled >>
       ELSE /\ uploading' = TRUE
            /\ progress' = 0
            /\ inFlight' = inFlight + 1
            /\ disabled' = ButtonDisabled(pageFile, TRUE)
  /\ UNCHANGED << pageFile, toasts, route >>
  /\ UNCHANGED offUploadPage

\* the request's onUploadProgress callback: setProgress(percent)
onUploadProgress(percent) ==
  /\ route = "/upload"
  /\ inFlight > 0
  /\ progress' = percent
  /\ UNCHANGED << pageFile, uploading, disabled, inFlight, clicks, toasts, route >>
  /\ UNCHANGED offUploadPage

\* the awaited upload resolved: toast.success, navigate('/results')
UploadResolves ==
  /\ route = "/upload"
  /\ inFlight > 0
  /\ inFlight' = inFlight - 1
  /\ toasts' = Append(toasts, "success")
  /\ route' = "/results"
  /\ UNCHANGED << pageFile, uploading, progress, disabled, clicks >>
  /\ UNCHANGED offUploadPage

\* the awaited upload rejected: the catch block's toast.error and
\* setUploading(false), whose render comes later
UploadRejects ==
  /\ route = "/upload"
  /\ inFlight > 0
  /\ inFlight' = inFlight - 1
  /\ toasts' = Append(toasts, "Upload failed")
  /\ uploading' = FALSE
  /\ UNCHANGED << pageFile, progress, disabled, clicks, route >>
  /\ UNCHANGED offUploadPage

\* React renders the page with the current state
UploadRender ==
  /\ route = "/upload"
  /\ disabled # ButtonDisabled(pageFile, uploading)
  /\ disabled' = ButtonDisabled(pageFile, uploading)
  /\ UNCHANGED << pageFile, uploading, progress, inFlight, clicks, toasts, route >>
  /\ UNCHANGED offUploadPage

UploadPageNext ==
  \/ \E f \in {None} \cup {Some(n) : n \in PageFiles} : onFileSelect(f)
  \/ handleUpload
  \/ \E percent \in Percents : onUploadProgress(percent)
  \/ UploadResolves
  \/ UploadRejects
  \/ UploadRender

UploadPageSpec == Init /\ [][UploadPageNext]_vars

\* at most one request is out, and while it is out `uploading` is true
OneUploadInFlight ==
  /\ inFlight \in {0, 1}
  /\ inFlight = 1 => uploading

\* a request starts only with a file selected and `uploading` false, and a
\* failed request puts `uploading` back to false
UploadStartsWhenFree ==
  /\ inFlight' > inFlight => IsSet(pageFile) /\ ~uploading /\ uploading'
  /\ (inFlight' < inFlight /\ route' = "/upload") => ~uploading'
  /\ (inFlight' = inFlight /\ inFlight = 1) => uploading' = uploading

\* C28: on the Upload page at most one submission is in flight: a request
\* starts only when a file is selected and `uploading` is false, `uploading`
\* is true for the whole request, and it is false again after a failed
\* request, so that a new submission can start.
C28_SingleUploadInFlight == []OneUploadInFlight /\ [][UploadStartsWhenFree]_vars

\* after a failed request a second one was started and is in flight
C28_Witness ==
  /\ clicks = 2 /\ inFlight = 1 /\ uploading
  /\ toasts = << "Upload failed" >>

\* ---------------------------------------------------------- authentication
\* (mutant) an interceptor that leaves localStorage alone
interceptorKeepsToken(status, t) == t

\* apiClient's response interceptor on a rejected response: the 'token'
\* entry after it
interceptor(status, t) == IF status = 401 THEN None ELSE t

\* isAuthenticated: !!token
isAuthenticated == IsSet(ctxToken)

\* login is called: up to `await authService.login(credentials)`
loginRequest ==
  /\ authOps < MaxAuthOps
  /\ authOps' = authOps + 1
  /\ pendingLogin' = pendingLogin + 1
  /\ UNCHANGED << lsToken, lsUser, ctxToken, ctxUser, loading, pendingSignup >>
  /\ UNCHANGED offAuth

\* login: authService.login resolved with `data`
login(data) ==
  /\ pendingLogin > 0
  /\ pendingLogin' = pendingLogin - 1
  /\ lsToken' = Some(data.token)
  /\ lsUser' = Some(data.user)
  /\ ctxToken' = Some(data.token)
  /\ ctxUser' = Some(data.user)
  /\ UNCHANGED << loading, pendingSignup, authOps >>
  /\ UNCHANGED offAuth

\* login: authService.login rejected (the interceptor ran, the catch rethrows)
loginRejects(status) ==
  /\ pendingLogin > 0
  /\ pendingLogin' = pendingLogin - 1
  /\ lsToken' = interceptor(status, lsToken)
  /\ UNCHANGED << lsUser, ctxToken, ctxUser, loading, pendingSignup, authOps >>
  /\ UNCHANGED offAuth

\* signup is called: up to `await authService.signup(userData)`
signupRequest ==
  /\ authOps < MaxAuthOps
  /\ authOps' = authOps + 1
  /\ pendingSignup' = pendingSignup + 1
  /\ UNCHANGED << lsToken, lsUser, ctxToken, ctxUser, loading, pendingLogin >>
  /\ UNCHANGED offAuth

\* signup: authService.signup resolved with `data`
signup(data) ==
  /\ pendingSignup > 0
  /\ pendingSignup' = pendingSignup - 1
  /\ lsToken' = Some(data.token)
  /\ lsUser' = Some(data.user)
  /\ ctxToken' = Some(data.token)
  /\ ctxUser' = Some(data.user)
  /\ UNCHANGED << loading, pendingLogin, authOps >>
  /\ UNCHANGED offAuth

\* signup: authService.signup rejected (the interceptor ran, the catch rethrows)
signupRejects(status) ==
  /\ pendingSignup > 0
  /\ pendingSignup' = pendingSignup - 1
  /\ lsToken' = interceptor(status, lsToken)
  /\ UNCHANGED << lsUser, ctxToken, ctxUser, loading, pendingLogin, authOps >>
  /\ UNCHANGED offAuth

logout ==
  /\ lsToken' = None
  /\ lsUser' = None
  /\ ctxToken' = None
  /\ ctxUser' = None
  /\ UNCHANGED << loading, pendingLogin, pendingSignup, authOps >>
  /\ UNCHANGED offAuth

\* another request made through apiClient (a GET /api/jobs/:id of somebody
\* else's Job, an upload, ...) is rejected with `status`
ApiRejects(status) ==
  /\ lsToken' = interceptor(status, lsToken)
  /\ UNCHANGED << lsUser, ctxToken, ctxUser, loading, pendingLogin,
                  pendingSignup, authOps >>
  /\ UNCHANGED offAuth

\* the page is loaded: AuthProvider mounts with useState(localStorage 'token')
\* and initializeAuth runs.  With a token and a stored user it sets both; with
\* a token and no stored user it would await authService.getProfile(), a
\* branch no run of the client reaches (nothing removes 'user' alone), so
\* that await is not followed and `loading` stays true there.
initializeAuth ==
  /\ authOps < MaxAuthOps
  /\ authOps' = authOps + 1
  /\ ctxToken' = lsToken
  /\ ctxUser' = IF IsSet(lsToken) THEN lsUser ELSE None
  /\ loading' = (IsSet(lsToken) /\ ~IsSet(lsUser))
  /\ UNCHANGED << lsToken, lsUser, pendingLogin, pendingSignup >>
  /\ UNCHANGED offAuth

AuthNext ==
  \/ loginRequest
  \/ \E data \in Accounts : login(data)
  \/ \E status \in ErrorStatuses : loginRejects(status)
  \/ signupRequest
  \/ \E data \in Accounts : signup(data)
  \/ \E status \in ErrorStatuses : signupRejects(status)
  \/ logout
  \/ \E status \in ErrorStatuses : ApiRejects(status)
  \/ initializeAuth

AuthSpec == Init /\ [][AuthNext]_vars

\* C29 (as claimed): after any sequence of login, signup, logout and 401
\* responses, localStorage has a 'token' entry exactly when it has a 'user'
\* entry, and isAuthenticated is true exactly when localStorage has a token.
C29_AuthStateConsistent ==
  /\ IsSet(lsToken) <=> IsSet(lsUser)
  /\ isAuthenticated <=> IsSet(lsToken)

\* ----------------------------------------------------------- Results page
\* a click on a history item: handleSelectResult up to its return or its
\* `await getJobDetails(jobSummary._id)`
handleSelectResult(item) ==
  /\ selections < MaxSelections
  /\ selections' = selections + 1
  /\ lastSelected' = Some(item)
  /\ IF item \in FullItems
       THEN /\ selectedResult' = Some(item)
            /\ UNCHANGED << loadingDetails, fetches >>
       ELSE /\ loadingDetails' = TRUE
            /\ fetches' = [fetches EXCEPT ![item] = @ + 1]
            /\ UNCHANGED selectedResult
  /\ UNCHANGED detailFailures
  /\ UNCHANGED offResultsPage

\* a getJobDetails call for `item` resolved: setSelectedResult(fullJob), then
\* the finally block
DetailsResolve(item) ==
  /\ fetches[item] > 0
  /\ fetches' = [fetches EXCEPT ![item] = @ - 1]
  /\ selectedResult' = Some(item)
  /\ loadingDetails' = FALSE
  /\ UNCHANGED << lastSelected, selections, detailFailures >>
  /\ UNCHANGED offResultsPage

\* a getJobDetails call for `item` rejected: console.error, then the finally
\* block
DetailsReject(item) ==
  /\ fetches[item] > 0
  /\ fetches' = [fetches EXCEPT ![item] = @ - 1]
  /\ loadingDetails' = FALSE
  /\ detailFailures' = detailFailures + 1
  /\ UNCHANGED << selectedResult, lastSelected, selections >>
  /\ UNCHANGED offResultsPage

ResultsPageNext ==
  \/ \E item \in SummaryItems \cup FullItems : handleSelectResult(item)
  \/ \E item \in SummaryItems : DetailsResolve(item)
  \/ \E item \in SummaryItems : DetailsReject(item)

ResultsPageSpec == Init /\ [][ResultsPageNext]_vars

\* detail fetches still outstanding
Outstanding == \E item \in SummaryItems : fetches[item] > 0

\* C30 (as claimed): when several history items were selected in succession
\* and all their detail fetches have completed, in whatever order, the job
\* displayed is the one selected last; and loadingDetails is false only when
\* no detail fetch is outstanding.
C30_LastSelectedIsDisplayed ==
  /\ (IsSet(lastSelected) /\ ~Outstanding /\ detailFailures = 0) =>
       selectedResult = lastSelected
  /\ ~loadingDetails => ~Outstanding

====
